---- MODULE Spec2Model ----
(***************************************************************************)
(* Session / document model of the Interviewer AI desktop application      *)
(* (src/interviewer_ai_app/app.py): the question list and its navigation,  *)
(* the follow-up insertion, the capture router, the two AI enrichments of  *)
(* the documents and the form fields that mirror the documents.            *)
(*                                                                         *)
(* Conventions.                                                            *)
(*  - A Python str is a sequence of tokens.  A token is one character      *)
(*    ("a", " ", the double quote, the newline) or an indivisible piece of *)
(*    text without whitespace ("Q:", "A:", "Scope", ...).                  *)
(*  - A Python list is a sequence; self.index is 0-based as in the code,   *)
(*    so the current record is questions[index + 1].                       *)
(*  - A JSON value is a record [t, v]: t the JSON type, v its content as a *)
(*    sequence.                                                            *)
(*  - Timestamps (created_at, updated_at) and the session's subject_name   *)
(*    and model entries are not modelled; of each document the model keeps *)
(*    the fields named below, one or more for each of the three ways the   *)
(*    code synchronises a field (Entry, Text, Text holding a list).        *)
(***************************************************************************)
EXTENDS Integers, Sequences, FiniteSets, TLC

VARIABLES
    questions,        \* self.questions
    index,            \* self.index
    answer_text,      \* self.answer_text, the answer box
    capture_var,      \* self.capture_var
    status,           \* self.status_var
    project_brief,    \* self.project_brief
    subject_profile,  \* self.subject_profile
    interview_guide,  \* self.interview_guide
    director_notes,   \* self.director_notes
    project_fields,   \* self.project_fields, the widgets' contents
    subject_fields,   \* self.subject_fields
    guide_fields,     \* self.guide_fields
    director_fields,  \* self.director_fields
    section_fields,   \* self.section_fields
    section_list,     \* self.section_list: titles shown and the selection
    op,               \* the last handler run: its input and what it reported
    question_bank,    \* self.question_bank
    files,            \* the files of TEMPLATE_DIR: path -> text, for those that exist
    running,          \* the handlers that have not returned, innermost last
    tk_queue          \* the user events Tk holds until the main loop takes them

vars == <<questions, index, answer_text, capture_var, status, project_brief,
          subject_profile, interview_guide, director_notes, project_fields,
          subject_fields, guide_fields, director_fields, section_fields,
          section_list, op, question_bank, files, running, tk_queue>>

\* what the handlers of the interview and the enrichments leave alone
outside == <<question_bank, files, running, tk_queue>>

docs == <<project_brief, subject_profile, interview_guide, director_notes>>

forms == <<project_fields, subject_fields, guide_fields, director_fields,
           section_fields, section_list>>

----------------------------------------------------------------------------
(* Bounds of the model *)

\* follow-up generation is offered while fewer AI records than this exist
MaxInserted == 2

\* capture is offered while fewer captured entries than this are stored
MaxCaptured == 1

\* a form field may be edited while fewer fields than this hold a typed text
MaxEdits == 1
\* temporary files of failed saves lying about when a further save fails
MaxLeftover == 1
\* the clicks that wait in the event queue
MaxQueued == 2

----------------------------------------------------------------------------
(* Strings *)

Min(S) == CHOOSE x \in S : \A y \in S : x <= y

Max(S) == CHOOSE x \in S : \A y \in S : x >= y

Whitespace == {" ", "\n"}

\* s without its leading and trailing tokens of the set chars
StripChars(s, chars) ==
    LET keep == {i \in 1..Len(s) : s[i] \notin chars}
    IN  IF keep = {} THEN <<>> ELSE SubSeq(s, Min(keep), Max(keep))

\* str.strip()
strip(s) == StripChars(s, Whitespace)

\* str.strip('"')
strip_quotes(s) == StripChars(s, {"\""})

RECURSIVE Join(_, _)
\* sep.join(items)
Join(sep, items) ==
    IF items = <<>> THEN <<>>
    ELSE IF Len(items) = 1 THEN items[1]
    ELSE items[1] \o sep \o Join(sep, Tail(items))

RECURSIVE splitlines(_)
\* str.splitlines(): the lines between newlines, no empty line after a final one
splitlines(s) ==
    IF s = <<>> THEN <<>>
    ELSE LET nl == {i \in 1..Len(s) : s[i] = "\n"}
         IN  IF nl = {} THEN <<s>>
             ELSE <<SubSeq(s, 1, Min(nl) - 1)>>
                      \o splitlines(SubSeq(s, Min(nl) + 1, Len(s)))

RECURSIVE SelectNonEmpty(_)
SelectNonEmpty(ss) ==
    IF ss = <<>> THEN <<>>
    ELSE IF Head(ss) = <<>> THEN SelectNonEmpty(Tail(ss))
    ELSE <<Head(ss)>> \o SelectNonEmpty(Tail(ss))

\* list_to_text(items)
list_to_text(items) == Join(<<"\n">>, items)

\* text_to_list(value)
text_to_list(value) ==
    LET lines == splitlines(value)
    IN  SelectNonEmpty([i \in 1..Len(lines) |-> strip(lines[i])])

\* what Text.get("1.0", "end") returns for a widget holding s
TextGet(s) == s \o <<"\n">>

----------------------------------------------------------------------------
(* JSON values and the model service *)

JArray(items) == [t |-> "array", v |-> items]

JObject(pairs) == [t |-> "object", v |-> pairs]

JString(s) == [t |-> "string", v |-> s]

JNumber(n) == [t |-> "number", v |-> <<n>>]

JBool(b) == [t |-> "bool", v |-> <<b>>]

JNull == [t |-> "null", v |-> <<>>]

JNone == [t |-> "none", v |-> <<>>]

\* call_ollama raised
Raised == [kind |-> "exception", raw |-> <<>>, val |-> JNone]

\* call_ollama returned text that json.loads rejects
Invalid(raw) == [kind |-> "invalid", raw |-> raw, val |-> JNone]

\* call_ollama returned text that json.loads parses to val
Valid(val) == [kind |-> "json", raw |-> <<>>, val |-> val]

NoResponse == [kind |-> "none", raw |-> <<>>, val |-> JNone]

\* Python truth value of a parsed JSON value
Truthy(val) ==
    CASE val.t \in {"array", "object", "string"} -> val.v # <<>>
      [] val.t = "number" -> val.v # <<"0">>
      [] val.t = "bool" -> val.v = <<"true">>
      [] OTHER -> FALSE

\* whether "for item in val" raises TypeError
NotIterable(val) == val.t \in {"number", "bool", "null"}

\* the items "for item in val" yields, each as str(item)
IterItems(val) ==
    CASE val.t = "array" -> val.v
      [] val.t = "object" -> [i \in 1..Len(val.v) |-> val.v[i].k]
      [] val.t = "string" -> [i \in 1..Len(val.v) |-> <<val.v[i]>>]
      [] OTHER -> <<>>

\* dict.get(key, default) on a parsed JSON object
DictGet(val, key, default) ==
    LET hits == {i \in 1..Len(val.v) : val.v[i].k = key}
    IN  IF hits = {} THEN default ELSE val.v[Max(hits)].val

\* dict.get(key, default) on a document
dict_get(doc, key, default) == IF key \in DOMAIN doc THEN doc[key] ELSE default

----------------------------------------------------------------------------
(* Question bank *)

QA == <<"a">>

QB == <<"b">>

\* a question bank as the ordered (key, value) items of the JSON object
BankMissing == << [key |-> "version", t |-> "string", v |-> <<"1.0">>] >>

BankAi ==
    << [key |-> "version", t |-> "string", v |-> <<"1.0">>],
       [key |-> "ai", t |-> "list", v |-> <<QA>>] >>

BankMixed ==
    << [key |-> "warmup", t |-> "list", v |-> <<QA>>],
       [key |-> "note", t |-> "string", v |-> <<"x">>],
       [key |-> "version", t |-> "list", v |-> <<QB>>],
       [key |-> "scope_ideas", t |-> "list", v |-> <<QB>>] >>

Banks == {BankMissing, BankAi, BankMixed}

\* records numbered as enumerate(value) numbers them, from 0, for the
\* "version" key too and without the prefix of a scope idea
bank_item_records_from_zero(item) ==
    IF item.t # "list" THEN <<>>
    ELSE [idx \in 1..Len(item.v) |->
            [id |-> <<item.key, "-", idx - 1>>,
             category |-> item.key,
             question |-> item.v[idx],
             answer |-> <<>>,
             source |-> "bank"]]

\* the records build_question_list appends for one item of the bank
bank_item_records(item) ==
    IF item.key = "version" \/ item.t # "list" THEN <<>>
    ELSE [idx \in 1..Len(item.v) |->
            [id |-> <<item.key, "-", idx>>,
             category |-> item.key,
             question |-> IF item.key = "scope_ideas"
                            THEN <<"Scope", " ", "idea:", " ">> \o item.v[idx]
                            ELSE item.v[idx],
             answer |-> <<>>,
             source |-> "bank"]]

RECURSIVE build_question_list(_)
build_question_list(bank) ==
    IF bank = <<>> THEN <<>>
    ELSE bank_item_records(Head(bank)) \o build_question_list(Tail(bank))

----------------------------------------------------------------------------
(* Documents and the form fields that show them *)

default_project_brief ==
    [project_name |-> <<>>, story_goals |-> <<>>, open_questions |-> <<>>]

default_subject_profile ==
    [subject_name |-> <<>>,
     background_summary |-> <<>>,
     key_life_events |-> <<>>,
     values_and_beliefs |-> <<>>,
     current_challenges |-> <<>>,
     strengths_and_skills |-> <<>>,
     pre_interview_notes |-> <<>>]

default_interview_guide == [director_notes |-> <<>>, sections |-> <<>>]

default_director_notes ==
    [story_arc |-> <<>>, scene_beats |-> <<>>, open_questions |-> <<>>]

Section(title, primary) ==
    [section_title |-> title, intent |-> <<>>,
     primary_questions |-> primary, follow_ups |-> <<>>]

\* an interview_guide.json written by an earlier run
LoadedGuide ==
    [director_notes |-> <<>>,
     sections |-> << Section(<<"s1">>, << <<"p">> >>), Section(<<"s2">>, <<>>) >>]

InitialGuides == {default_interview_guide, LoadedGuide}

\* a director_producer.json written by an earlier run
LoadedDirectorNotes ==
    [story_arc |-> <<>>, scene_beats |-> << <<"s">> >>, open_questions |-> <<>>]

InitialDirectorNotes == {default_director_notes, LoadedDirectorNotes}

\* what populate_project_brief_fields leaves in the widgets
populate_project_brief_fields(brief) ==
    [project_name |-> dict_get(brief, "project_name", <<>>),
     story_goals |-> list_to_text(dict_get(brief, "story_goals", <<>>)),
     open_questions |-> list_to_text(dict_get(brief, "open_questions", <<>>))]

\* what populate_subject_profile_fields leaves in the widgets
populate_subject_profile_fields(profile) ==
    [subject_name |-> profile.subject_name,
     background_summary |-> profile.background_summary,
     key_life_events |-> list_to_text(profile.key_life_events),
     values_and_beliefs |-> list_to_text(profile.values_and_beliefs),
     current_challenges |-> list_to_text(profile.current_challenges),
     strengths_and_skills |-> list_to_text(profile.strengths_and_skills),
     pre_interview_notes |-> list_to_text(profile.pre_interview_notes)]

\* what populate_director_notes_fields leaves in the widgets
populate_director_notes_fields(notes) ==
    [story_arc |-> notes.story_arc,
     scene_beats |-> list_to_text(notes.scene_beats),
     open_questions |-> list_to_text(notes.open_questions)]

\* the widget part of populate_interview_guide_fields
populate_interview_guide_fields(guide) ==
    [director_notes |-> guide.director_notes]

NoSelection == -1

\* refresh_section_list: the titles are rebuilt, which drops the selection
refresh_section_list(guide) ==
    [titles |-> [i \in 1..Len(guide.sections) |-> guide.sections[i].section_title],
     sel |-> NoSelection]

\* get_selected_section_index: the 0-based index, or None (NoSelection)
get_selected_section_index(list) == list.sel

\* what on_section_select leaves in the section widgets
on_section_select(guide, list, fields) ==
    IF get_selected_section_index(list) = NoSelection THEN fields
    ELSE LET section == guide.sections[list.sel + 1]
         IN  [section_title |-> section.section_title,
              intent |-> section.intent,
              primary_questions |-> list_to_text(section.primary_questions),
              follow_ups |-> list_to_text(section.follow_ups)]

EmptySectionFields ==
    [section_title |-> <<>>, intent |-> <<>>,
     primary_questions |-> <<>>, follow_ups |-> <<>>]

\* sync_all_fields_to_data, the project brief
sync_project_brief(fields) ==
    [project_name |-> strip(fields.project_name),
     story_goals |-> text_to_list(TextGet(fields.story_goals)),
     open_questions |-> text_to_list(TextGet(fields.open_questions))]

\* sync_all_fields_to_data, the subject profile
sync_subject_profile(fields) ==
    [subject_name |-> strip(fields.subject_name),
     background_summary |-> strip(TextGet(fields.background_summary)),
     key_life_events |-> text_to_list(TextGet(fields.key_life_events)),
     values_and_beliefs |-> text_to_list(TextGet(fields.values_and_beliefs)),
     current_challenges |-> text_to_list(TextGet(fields.current_challenges)),
     strengths_and_skills |-> text_to_list(TextGet(fields.strengths_and_skills)),
     pre_interview_notes |-> text_to_list(TextGet(fields.pre_interview_notes))]

\* sync_all_fields_to_data, the interview guide: the sections are not touched
sync_interview_guide(guide, fields) ==
    [guide EXCEPT !.director_notes = strip(TextGet(fields.director_notes))]

\* sync_all_fields_to_data, the director notes
sync_director_notes(fields) ==
    [story_arc |-> strip(TextGet(fields.story_arc)),
     scene_beats |-> text_to_list(TextGet(fields.scene_beats)),
     open_questions |-> text_to_list(TextGet(fields.open_questions))]

----------------------------------------------------------------------------
(* JSON text: what json.dump writes and what json.load reads                *)
(* A text is a sequence of tokens; the quote, the backslash, the newline,   *)
(* the space and the punctuation of JSON are tokens of their own.           *)

\* a string body that leaves the newline as it is
escape_quote_only(s) ==
    LET esc(c) == IF c = "\"" THEN <<"\\", "\"">> ELSE <<c>>
    IN  Join(<<>>, [i \in 1..Len(s) |-> esc(s[i])])

\* the body json.dump writes for a str: quote, backslash and newline escaped
escape(s) ==
    LET esc(c) == IF c = "\"" THEN <<"\\", "\"">>
                  ELSE IF c = "\\" THEN <<"\\", "\\">>
                  ELSE IF c = "\n" THEN <<"\\", "n">>
                  ELSE <<c>>
    IN  Join(<<>>, [i \in 1..Len(s) |-> esc(s[i])])

dumps_str(s) == <<"\"">> \o escape(s) \o <<"\"">>

\* the newline and the indentation of indent=2 at a nesting depth
newline_indent(depth) == <<"\n">> \o [i \in 1..(2 * depth) |-> " "]

\* "[" items "]" or "{" items "}" with one item per line, as indent=2 lays
\* them out; an empty container is written without a line break
dumps_container(open, close, texts, depth) ==
    IF texts = <<>> THEN <<open, close>>
    ELSE <<open>>
           \o Join(<<",">>, [i \in 1..Len(texts) |->
                               newline_indent(depth + 1) \o texts[i]])
           \o newline_indent(depth) \o <<close>>

\* the Python types of the values json.dump meets in the documents; the
\* model writes "" and [] both as <<>>, so the type says which one is dumped
Str == [t |-> "str"]

ListOf(type) == [t |-> "list", of |-> type]

\* a dict with its keys in insertion order
Dict(members) == [t |-> "dict", members |-> members]

StrList == ListOf(Str)

SectionType ==
    Dict(<< <<"section_title", Str>>, <<"intent", Str>>,
            <<"primary_questions", StrList>>, <<"follow_ups", StrList>> >>)

ProjectBriefType ==
    Dict(<< <<"project_name", Str>>, <<"story_goals", StrList>>,
            <<"open_questions", StrList>> >>)

SubjectProfileType ==
    Dict(<< <<"subject_name", Str>>, <<"background_summary", Str>>,
            <<"key_life_events", StrList>>, <<"values_and_beliefs", StrList>>,
            <<"current_challenges", StrList>>, <<"strengths_and_skills", StrList>>,
            <<"pre_interview_notes", StrList>> >>)

InterviewGuideType ==
    Dict(<< <<"director_notes", Str>>, <<"sections", ListOf(SectionType)>> >>)

DirectorNotesType ==
    Dict(<< <<"story_arc", Str>>, <<"scene_beats", StrList>>,
            <<"open_questions", StrList>> >>)

RECURSIVE dumps_value(_, _, _)
\* what json.dump(data, f, indent=2) writes for a value at a nesting depth;
\* of a dict it writes the keys the dict holds
dumps_value(value, type, depth) ==
    IF type.t = "str" THEN dumps_str(value)
    ELSE IF type.t = "list"
      THEN dumps_container("[", "]",
              [i \in 1..Len(value) |-> dumps_value(value[i], type.of, depth + 1)],
              depth)
    ELSE LET members == SelectSeq(type.members,
                                  LAMBDA member : member[1] \in DOMAIN value)
             text(member) ==
                 dumps_str(<<member[1]>>) \o <<":", " ">>
                    \o dumps_value(value[member[1]], member[2], depth + 1)
         IN  dumps_container("{", "}",
                             [i \in 1..Len(members) |-> text(members[i])], depth)

\* the text of a document
dumps(doc, type) == dumps_value(doc, type, 0)

\* the outcome of a parse: the value read and the position behind it, or the
\* json.JSONDecodeError that json.load raises
Bad == [ok |-> FALSE, val |-> <<>>, pos |-> 0]

Good(val, pos) == [ok |-> TRUE, val |-> val, pos |-> pos]

\* the first position from i on that holds no JSON whitespace
skip_ws(t, i) ==
    LET stops == {j \in i..Len(t) : t[j] \notin Whitespace}
    IN  IF stops = {} THEN Len(t) + 1 ELSE Min(stops)

\* the dict of the (key, value) pairs read, a later pair replacing an earlier
\* one of the same key
dict_of(pairs) ==
    [key \in {pairs[n][1] : n \in 1..Len(pairs)} |->
        pairs[Max({n \in 1..Len(pairs) : pairs[n][1] = key})][2]]

RECURSIVE parse_string(_, _, _)
\* the str whose opening quote is before position i
parse_string(t, i, acc) ==
    IF i > Len(t) THEN Bad
    ELSE IF t[i] = "\"" THEN Good(acc, i + 1)
    ELSE IF t[i] = "\n" THEN Bad
    ELSE IF t[i] = "\\"
      THEN IF i + 1 > Len(t) THEN Bad
           ELSE IF t[i + 1] = "n" THEN parse_string(t, i + 2, Append(acc, "\n"))
           ELSE IF t[i + 1] \in {"\"", "\\"}
             THEN parse_string(t, i + 2, Append(acc, t[i + 1]))
           ELSE Bad
    ELSE parse_string(t, i + 1, Append(acc, t[i]))

RECURSIVE parse_value(_, _)
RECURSIVE parse_elements(_, _, _)
RECURSIVE parse_members(_, _, _)

\* the elements of an array from position i on, behind "[" or ","
parse_elements(t, i, acc) ==
    LET element == parse_value(t, i)
        j == skip_ws(t, element.pos)
    IN  IF ~element.ok \/ j > Len(t) THEN Bad
        ELSE IF t[j] = "," THEN parse_elements(t, j + 1, Append(acc, element.val))
        ELSE IF t[j] = "]" THEN Good(Append(acc, element.val), j + 1)
        ELSE Bad

\* the members of an object from position i on, behind "{" or ","
parse_members(t, i, acc) ==
    LET k == skip_ws(t, i)
        key == IF k <= Len(t) /\ t[k] = "\"" THEN parse_string(t, k + 1, <<>>)
               ELSE Bad
        c == skip_ws(t, key.pos)
        member == IF key.ok /\ Len(key.val) = 1 /\ c <= Len(t) /\ t[c] = ":"
                    THEN parse_value(t, c + 1)
                    ELSE Bad
        j == skip_ws(t, member.pos)
    IN  IF ~member.ok \/ j > Len(t) THEN Bad
        ELSE IF t[j] = ","
          THEN parse_members(t, j + 1, Append(acc, <<key.val[1], member.val>>))
        ELSE IF t[j] = "}"
          THEN Good(dict_of(Append(acc, <<key.val[1], member.val>>)), j + 1)
        ELSE Bad

\* the value that starts at the first non-blank position from i on
parse_value(t, i) ==
    LET j == skip_ws(t, i)
        n == skip_ws(t, j + 1)
    IN  IF j > Len(t) THEN Bad
        ELSE IF t[j] = "\"" THEN parse_string(t, j + 1, <<>>)
        ELSE IF t[j] = "["
          THEN IF n <= Len(t) /\ t[n] = "]" THEN Good(<<>>, n + 1)
               ELSE parse_elements(t, j + 1, <<>>)
        ELSE IF t[j] = "{"
          THEN IF n <= Len(t) /\ t[n] = "}" THEN Good(<<>>, n + 1)
               ELSE parse_members(t, j + 1, <<>>)
        ELSE Bad

\* json.load: the value of the whole text, or the error
loads(t) ==
    LET value == parse_value(t, 1)
    IN  IF value.ok /\ skip_ws(t, value.pos) > Len(t)
          THEN Good(value.val, Len(t) + 1)
          ELSE Bad

----------------------------------------------------------------------------
(* Document store: the files and load_json, save_json, load_or_default *)

\* a path as its stem and its suffixes
JsonPath(stem) == [stem |-> stem, suffix |-> <<".json">>]

PROJECT_BRIEF_PATH == JsonPath("project_brief")

SUBJECT_PROFILE_PATH == JsonPath("subject_profile")

INTERVIEW_GUIDE_PATH == JsonPath("interview_guide")

DIRECTOR_NOTES_PATH == JsonPath("director_producer")

\* SESSIONS_DIR / filename: the model keeps no clock and one subject, so the
\* session is saved under one name
SESSION_PATH == JsonPath("session")

\* a temporary path that is the target itself
tmp_path_same(path) == path

\* path.with_suffix(path.suffix + ".tmp")
tmp_path(path) == [path EXCEPT !.suffix = @ \o <<".tmp">>]


\* path.exists()
exists(fs, path) == path \in DOMAIN fs

\* the file system once path holds text
write_file(fs, path, text) ==
    [q \in DOMAIN fs \cup {path} |-> IF q = path THEN text ELSE fs[q]]

\* Path.replace: dst takes the content of src and src is gone
replace_file(fs, src, dst) ==
    [q \in (DOMAIN fs \ {src}) \cup {dst} |-> IF q = dst THEN fs[src] ELSE fs[q]]

\* load_json: the parse of the file, whose ok is FALSE when json.load raises
load_json(fs, path) == loads(fs[path])

\* load_or_default
load_or_default(fs, path, default) ==
    IF exists(fs, path) THEN load_json(fs, path).val ELSE default

\* the files an earlier run has left when it saved guide and notes and
\* nothing else
Stored(guide, notes) ==
    LET paths == (IF guide = default_interview_guide THEN {}
                  ELSE {INTERVIEW_GUIDE_PATH})
                 \cup (IF notes = default_director_notes THEN {}
                       ELSE {DIRECTOR_NOTES_PATH})
    IN  [path \in paths |->
            IF path = INTERVIEW_GUIDE_PATH THEN dumps(guide, InterviewGuideType)
            ELSE dumps(notes, DirectorNotesType)]

----------------------------------------------------------------------------
(* Capture targets *)

\* a table that sends both director destinations to open_questions
capture_targets_swapped ==
    [k \in {"Subject: pre_interview_notes", "Project: open_questions",
            "Director: scene_beats", "Director: open_questions",
            "Guide: current section questions"} |->
        CASE k = "Subject: pre_interview_notes" -> <<"subject", "pre_interview_notes">>
          [] k = "Project: open_questions" -> <<"project", "open_questions">>
          [] k = "Director: scene_beats" -> <<"director", "open_questions">>
          [] k = "Director: open_questions" -> <<"director", "open_questions">>
          [] OTHER -> <<"guide", "section_primary">>]

\* self.capture_targets
capture_targets ==
    [k \in {"Subject: pre_interview_notes", "Project: open_questions",
            "Director: scene_beats", "Director: open_questions",
            "Guide: current section questions"} |->
        CASE k = "Subject: pre_interview_notes" -> <<"subject", "pre_interview_notes">>
          [] k = "Project: open_questions" -> <<"project", "open_questions">>
          [] k = "Director: scene_beats" -> <<"director", "scene_beats">>
          [] k = "Director: open_questions" -> <<"director", "open_questions">>
          [] OTHER -> <<"guide", "section_primary">>]

\* f"Q: {q['question']}\nA: {answer}"
capture_text(question, answer) ==
    <<"Q:", " ">> \o question \o <<"\n", "A:", " ">> \o answer

----------------------------------------------------------------------------
(* Initial state: InterviewApp.__init__ *)

Idle ==
    [name |-> "idle", msg |-> "none", fault |-> FALSE, calls |-> 0,
     resp |-> NoResponse]

Done(name, msg, calls, resp) ==
    [name |-> name, msg |-> msg, fault |-> FALSE, calls |-> calls, resp |-> resp]

Fault(name, calls, resp) ==
    [name |-> name, msg |-> "none", fault |-> TRUE, calls |-> calls, resp |-> resp]

\* a render_question that leaves the answer box as it finds it
render_answer_kept(qs, i, box) == box

\* render_question: the answer box and the status it leaves
render_answer(qs, i, box) ==
    IF qs = <<>> THEN <<>> ELSE qs[i + 1].answer

render_status(qs, i, st) ==
    IF qs = <<>> THEN st ELSE <<"Category: ", qs[i + 1].category>>

\* __init__ over the files of store when load_question_bank returns bank
InitFrom(bank, store) ==
    /\ question_bank = bank
    /\ files = store
    /\ running = <<>>
    /\ tk_queue = <<>>
    /\ questions = build_question_list(question_bank)
    /\ index = 0
    /\ answer_text = render_answer(questions, 0, <<>>)
    /\ status = render_status(questions, 0, <<"Ready">>)
    /\ capture_var = "Subject: pre_interview_notes"
    /\ project_brief =
          load_or_default(files, PROJECT_BRIEF_PATH, default_project_brief)
    /\ subject_profile =
          load_or_default(files, SUBJECT_PROFILE_PATH, default_subject_profile)
    /\ interview_guide =
          load_or_default(files, INTERVIEW_GUIDE_PATH, default_interview_guide)
    /\ director_notes =
          load_or_default(files, DIRECTOR_NOTES_PATH, default_director_notes)
    /\ project_fields = populate_project_brief_fields(project_brief)
    /\ subject_fields = populate_subject_profile_fields(subject_profile)
    /\ guide_fields = populate_interview_guide_fields(interview_guide)
    /\ director_fields = populate_director_notes_fields(director_notes)
    /\ section_fields = EmptySectionFields
    /\ section_list = refresh_section_list(interview_guide)
    /\ op = Idle

InitWith(bank, guide, notes) == InitFrom(bank, Stored(guide, notes))

Init ==
    \E bank \in Banks, guide \in InitialGuides, notes \in InitialDirectorNotes :
        InitWith(bank, guide, notes)

----------------------------------------------------------------------------
(* What the user does to the widgets between two handlers *)

\* the main loop takes an event when no handler is running, and the handler
\* it starts returns before the next event is taken; these handlers touch no
\* file
FromMainLoop == running = <<>> /\ UNCHANGED outside

\* texts typed into the answer box
AnswerTexts == { <<" ">>, <<" ", "x", " ">> }

TypeAnswer ==
    /\ FromMainLoop
    /\ \E t \in AnswerTexts : answer_text' = t
    /\ answer_text' # answer_text
    /\ op' = Idle
    /\ UNCHANGED <<questions, index, capture_var, status, docs, forms>>

SelectCapture ==
    /\ FromMainLoop
    /\ \E k \in DOMAIN capture_targets : capture_var' = k
    /\ capture_var' # capture_var
    /\ op' = Idle
    /\ UNCHANGED <<questions, index, answer_text, status, docs, forms>>

\* a click on a title of the section list, which fires <<ListboxSelect>>
SelectSection ==
    /\ FromMainLoop
    /\ \E i \in 0..(Len(section_list.titles) - 1) :
          /\ i # section_list.sel
          /\ section_list' = [section_list EXCEPT !.sel = i]
    /\ section_fields' = on_section_select(interview_guide, section_list', section_fields)
    /\ op' = Idle
    /\ UNCHANGED <<questions, index, answer_text, capture_var, status, docs,
                   project_fields, subject_fields, guide_fields, director_fields>>

----------------------------------------------------------------------------
(* Navigation *)

\* a save_current_answer that stores the box as typed
save_current_answer_raw(qs, i, box) ==
    IF qs = <<>> THEN qs ELSE [qs EXCEPT ![i + 1].answer = box]

\* a save_current_answer that stores the box in every record
save_current_answer_all(qs, i, box) ==
    [j \in 1..Len(qs) |-> [qs[j] EXCEPT !.answer = strip(TextGet(box))]]

\* save_current_answer: the question list it leaves
save_current_answer(qs, i, box) ==
    IF qs = <<>> THEN qs
    ELSE [qs EXCEPT ![i + 1].answer = strip(TextGet(box))]

\* a next_question that wraps around at the end of the list
next_index_wrap(i, qs) == IF i < Len(qs) - 1 THEN i + 1 ELSE 0

\* lines 515-516: the index next_question leaves
next_index(i, qs) == IF i < Len(qs) - 1 THEN i + 1 ELSE i

\* the state next_question leaves, given the answer box it finds
NextFrom(box, name) ==
    LET qs == save_current_answer(questions, index, box)
    IN  /\ questions' = qs
        /\ index' = next_index(index, qs)
        /\ IF index < Len(qs) - 1
             THEN /\ answer_text' = render_answer(qs, index', box)
                  /\ status' = render_status(qs, index', status)
                  /\ op' = Done(name, "none", 0, NoResponse)
             ELSE /\ answer_text' = box
                  /\ status' = <<"End of questions">>
                  /\ op' = Done(name, "none", 0, NoResponse)
        /\ UNCHANGED <<capture_var, docs, forms>>

next_question == FromMainLoop /\ NextFrom(answer_text, "next_question")

prev_question ==
    /\ FromMainLoop
    /\ LET qs == save_current_answer(questions, index, answer_text)
       IN  /\ questions' = qs
           /\ IF index > 0
                THEN /\ index' = index - 1
                     /\ answer_text' = render_answer(qs, index', answer_text)
                     /\ status' = render_status(qs, index', status)
                ELSE UNCHANGED <<index, answer_text, status>>
           /\ op' = Done("prev_question", "none", 0, NoResponse)
           /\ UNCHANGED <<capture_var, docs, forms>>

skip_question ==
    /\ FromMainLoop
    /\ IF questions = <<>>
         THEN /\ op' = Done("skip_question", "none", 0, NoResponse)
              /\ UNCHANGED <<questions, index, answer_text, capture_var, status,
                             docs, forms>>
         ELSE NextFrom(<<>>, "skip_question")

----------------------------------------------------------------------------
(* Follow-up generation *)

\* an assignment qs[at] = x in place of the insertion, appending at the end
InsertAt_overwrite(qs, at, x) ==
    SubSeq(qs, 1, at) \o <<x>> \o SubSeq(qs, at + 2, Len(qs))

\* list.insert(at, x), at 0-based
InsertAt(qs, at, x) == SubSeq(qs, 1, at) \o <<x>> \o SubSeq(qs, at + 1, Len(qs))

\* an id numbered by the list length itself
ai_id_len(qs) == <<"ai", "-", Len(qs)>>

\* f"ai-{len(self.questions) + 1}"
ai_id(qs) == <<"ai", "-", Len(qs) + 1>>

new_item(qs, follow_up) ==
    [id |-> ai_id(qs),
     category |-> "ai_follow_up",
     question |-> follow_up,
     answer |-> <<>>,
     source |-> "ollama"]

\* a text that keeps its quotes
follow_up_text_quoted(item) == strip(item)

\* str(item).strip().strip('"')
follow_up_text(item) == strip_quotes(strip(item))

RECURSIVE insert_loop(_, _, _)
\* the for loop of _insert_follow_ups: the question list it leaves
insert_loop(qs, items, insert_at) ==
    IF items = <<>> THEN qs
    ELSE LET follow_up == follow_up_text(Head(items))
         IN  IF follow_up = <<>>
               THEN insert_loop(qs, Tail(items), insert_at)
               ELSE insert_loop(InsertAt(qs, insert_at, new_item(qs, follow_up)),
                                Tail(items), insert_at + 1)



\* self.index = min(self.index + 1, len(self.questions) - 1)
index_after_insert(i, qs) == IF i + 1 < Len(qs) - 1 THEN i + 1 ELSE Len(qs) - 1

\* a fallback that takes nothing from a response json.loads rejects
parsed_items_none(resp) ==
    IF resp.kind = "json" THEN resp.val ELSE JArray(<<>>)

\* the value of items after the try/except around json.loads
parsed_items(resp) ==
    IF resp.kind = "json" THEN resp.val ELSE JArray(<< strip(resp.raw) >>)

AICount(qs) == Cardinality({i \in 1..Len(qs) : qs[i].source = "ollama"})

\* what the model service answers to a follow-up prompt
FollowUpResponses ==
    { Raised,
      Invalid(<<>>),
      Invalid(<<"a">>),
      Invalid(<<"\"">>),
      Valid(JArray(<<>>)),
      Valid(JArray(<< <<" ", "a", " ">>, <<>>, <<"\"", "b", "\"">> >>)),
      Valid(JArray(<< <<" ">>, <<"\"", "\"">> >>)),
      Valid(JArray(<< <<"\"", " ", "\"">> >>)),
      Valid(JObject(<< [k |-> <<"a">>, val |-> <<"X">>],
                       [k |-> <<"b">>, val |-> <<"Y">>] >>)),
      Valid(JString(<<"a", "b">>)),
      Valid(JNumber("0")),
      Valid(JNumber("5")),
      Valid(JBool("true")),
      Valid(JNull) }

\* _insert_follow_ups(count) when the service answers resp; count only words
\* the prompt
insert_follow_ups(count, resp) ==
    /\ AICount(questions) < MaxInserted
    /\ UNCHANGED <<capture_var, docs, forms>>
    /\ IF questions = <<>>
         THEN /\ op' = Done("insert_follow_ups", "none", 0, NoResponse)
              /\ UNCHANGED <<questions, index, answer_text, status>>
         ELSE
              LET qs == save_current_answer(questions, index, answer_text)
                  last_answer == qs[index + 1].answer
                  items == parsed_items(resp)
              IN  IF last_answer = <<>>
                    THEN /\ questions' = qs
                         /\ op' = Done("insert_follow_ups",
                                       "Answer the current question first.", 0, NoResponse)
                         /\ UNCHANGED <<index, answer_text, status>>
                  ELSE IF resp.kind = "exception"
                    THEN /\ questions' = qs
                         /\ status' = <<"Ready">>
                         /\ op' = Done("insert_follow_ups", "Ollama error", 1, resp)
                         /\ UNCHANGED <<index, answer_text>>
                  ELSE IF ~Truthy(items)
                    THEN /\ questions' = qs
                         /\ status' = <<"Ready">>
                         /\ op' = Done("insert_follow_ups", "No follow-up generated.", 1, resp)
                         /\ UNCHANGED <<index, answer_text>>
                  ELSE IF NotIterable(items)
                    THEN /\ questions' = qs
                         /\ status' = <<"Calling Ollama...">>
                         /\ op' = Fault("insert_follow_ups", 1, resp)
                         /\ UNCHANGED <<index, answer_text>>
                  ELSE /\ questions' = insert_loop(qs, IterItems(items), index + 1)
                       /\ index' = index_after_insert(index, questions')
                       /\ answer_text' = render_answer(questions', index', answer_text)
                       /\ status' = render_status(questions', index', status)
                       /\ op' = Done("insert_follow_ups", "none", 1, resp)

insert_follow_up ==
    /\ FromMainLoop
    /\ \E resp \in FollowUpResponses : insert_follow_ups(1, resp)

insert_follow_ups_batch ==
    /\ FromMainLoop
    /\ \E resp \in FollowUpResponses : insert_follow_ups(5, resp)

----------------------------------------------------------------------------
(* Capture *)

CapturedIn(list) ==
    Cardinality({i \in 1..Len(list) : list[i] # <<>> /\ list[i][1] = "Q:"})

RECURSIVE CapturedInSections(_)
CapturedInSections(sections) ==
    IF sections = <<>> THEN 0
    ELSE CapturedIn(Head(sections).primary_questions)
            + CapturedInSections(Tail(sections))

CapturedCount ==
    CapturedIn(subject_profile.pre_interview_notes)
      + CapturedIn(project_brief.open_questions)
      + CapturedIn(director_notes.scene_beats)
      + CapturedIn(director_notes.open_questions)
      + CapturedInSections(interview_guide.sections)

\* append_question_to_current_section
append_question_to_current_section(question) ==
    LET idx == get_selected_section_index(section_list)
    IN  IF idx = NoSelection
          THEN /\ op' = Done("capture_answer",
                             "Select a section in Interview Guide first.", 0, NoResponse)
               /\ UNCHANGED <<interview_guide, section_list, section_fields>>
          ELSE /\ interview_guide' =
                     [interview_guide EXCEPT
                        !.sections[idx + 1].primary_questions = Append(@, question)]
               /\ section_list' =
                     [refresh_section_list(interview_guide') EXCEPT !.sel = idx]
               /\ section_fields' =
                     on_section_select(interview_guide', section_list', section_fields)
               /\ op' = Done("capture_answer", "none", 0, NoResponse)

capture_answer ==
    /\ FromMainLoop
    /\ CapturedCount < MaxCaptured
    /\ UNCHANGED <<index, answer_text, capture_var>>
    /\ IF questions = <<>>
         THEN \* self.questions[self.index] raises IndexError
              /\ op' = Fault("capture_answer", 0, NoResponse)
              /\ UNCHANGED <<questions, status, docs, forms>>
         ELSE
              LET qs == save_current_answer(questions, index, answer_text)
                  q == qs[index + 1]
                  answer == q.answer
                  target == capture_targets[capture_var]
                  text == capture_text(q.question, answer)
              IN  /\ questions' = qs
                  /\ IF answer = <<>>
                       THEN /\ op' = Done("capture_answer",
                                          "Answer the current question first.", 0, NoResponse)
                            /\ UNCHANGED <<status, docs, forms>>
                     ELSE
                       /\ status' = <<"Captured to ", capture_var>>
                       /\ CASE target[1] = "subject" ->
                                /\ subject_profile' =
                                      [subject_profile EXCEPT
                                         !.pre_interview_notes = Append(@, text)]
                                /\ subject_fields' =
                                      populate_subject_profile_fields(subject_profile')
                                /\ op' = Done("capture_answer", "none", 0, NoResponse)
                                /\ UNCHANGED <<project_brief, interview_guide, director_notes,
                                               project_fields, guide_fields, director_fields,
                                               section_fields, section_list>>
                            [] target[1] = "project" ->
                                /\ project_brief' =
                                      [project_brief EXCEPT !.open_questions = Append(@, text)]
                                /\ project_fields' =
                                      populate_project_brief_fields(project_brief')
                                /\ op' = Done("capture_answer", "none", 0, NoResponse)
                                /\ UNCHANGED <<subject_profile, interview_guide, director_notes,
                                               subject_fields, guide_fields, director_fields,
                                               section_fields, section_list>>
                            [] target[1] = "director" ->
                                /\ director_notes' =
                                      [director_notes EXCEPT ![target[2]] = Append(@, text)]
                                /\ director_fields' =
                                      populate_director_notes_fields(director_notes')
                                /\ op' = Done("capture_answer", "none", 0, NoResponse)
                                /\ UNCHANGED <<project_brief, subject_profile, interview_guide,
                                               project_fields, subject_fields, guide_fields,
                                               section_fields, section_list>>
                            [] OTHER ->
                                /\ append_question_to_current_section(text)
                                /\ UNCHANGED <<project_brief, subject_profile, director_notes,
                                               project_fields, subject_fields, guide_fields,
                                               director_fields>>

----------------------------------------------------------------------------
(* Subject summarization *)

RECURSIVE answer_blocks(_)
answer_blocks(qs) ==
    IF qs = <<>> THEN <<>>
    ELSE IF strip(Head(qs).answer) = <<>> THEN answer_blocks(Tail(qs))
    ELSE << capture_text(Head(qs).question, strip(Head(qs).answer)) >>
            \o answer_blocks(Tail(qs))

\* collect_answer_text
collect_answer_text(qs) == Join(<<"\n", "\n">>, answer_blocks(qs))

SummaryKeys ==
    {"background_summary", "key_life_events", "values_and_beliefs",
     "current_challenges", "strengths_and_skills"}

Pair(key, value) == [k |-> <<key>>, val |-> value]

\* what the model service answers to the summary prompt
SummaryResponses ==
    { Raised,
      Invalid(<<"a">>),
      Valid(JObject(<< Pair("background_summary", <<"X">>) >>)),
      Valid(JObject(<< Pair("key_life_events", << <<"e">> >>),
                       Pair("values_and_beliefs", << <<"v">> >>),
                       Pair("current_challenges", << <<"c">> >>),
                       Pair("strengths_and_skills", << <<"s">> >>),
                       Pair("other", <<"o">>) >>)),
      Valid(JObject(<<>>)),
      Valid(JArray(<< <<"a">> >>)),
      Valid(JString(<<"a">>)),
      Valid(JNumber("5")),
      Valid(JNull) }

\* a merge that keeps the value of a field whose key is absent
merge_summary_keep(profile, payload) ==
    [profile EXCEPT
       !.background_summary = DictGet(payload, <<"background_summary">>, @),
       !.key_life_events = DictGet(payload, <<"key_life_events">>, @),
       !.values_and_beliefs = DictGet(payload, <<"values_and_beliefs">>, @),
       !.current_challenges = DictGet(payload, <<"current_challenges">>, @),
       !.strengths_and_skills = DictGet(payload, <<"strengths_and_skills">>, @)]

\* an except clause that catches the service error only
summary_failed_service_only(resp) == resp.kind = "exception"

\* lines 919-925: whether call_ollama or json.loads raised
summary_failed(resp) == resp.kind \in {"exception", "invalid"}

\* lines 927-931: the five assignments from payload.get
merge_summary(profile, payload) ==
    [profile EXCEPT
       !.background_summary = DictGet(payload, <<"background_summary">>, <<>>),
       !.key_life_events = DictGet(payload, <<"key_life_events">>, <<>>),
       !.values_and_beliefs = DictGet(payload, <<"values_and_beliefs">>, <<>>),
       !.current_challenges = DictGet(payload, <<"current_challenges">>, <<>>),
       !.strengths_and_skills = DictGet(payload, <<"strengths_and_skills">>, <<>>)]

\* ai_summarize_subject when the service answers resp
summarize_subject(resp) ==
    /\ UNCHANGED <<questions, index, answer_text, capture_var, project_brief,
                   interview_guide, director_notes, project_fields, guide_fields,
                   director_fields, section_fields, section_list>>
    /\ IF collect_answer_text(questions) = <<>>
         THEN /\ op' = Done("ai_summarize_subject",
                            "Answer a few questions first.", 0, NoResponse)
              /\ UNCHANGED <<status, subject_profile, subject_fields>>
       ELSE IF summary_failed(resp)
         THEN /\ status' = <<"Ready">>
              /\ op' = Done("ai_summarize_subject", "AI summary failed", 1, resp)
              /\ UNCHANGED <<subject_profile, subject_fields>>
       ELSE IF resp.val.t # "object"
         THEN \* payload.get raises AttributeError
              /\ status' = <<"Summarizing subject...">>
              /\ op' = Fault("ai_summarize_subject", 1, resp)
              /\ UNCHANGED <<subject_profile, subject_fields>>
       ELSE /\ subject_profile' = merge_summary(subject_profile, resp.val)
            /\ subject_fields' = populate_subject_profile_fields(subject_profile')
            /\ status' = <<"Subject summary updated">>
            /\ op' = Done("ai_summarize_subject", "none", 1, resp)

ai_summarize_subject ==
    /\ FromMainLoop
    /\ \E resp \in SummaryResponses : summarize_subject(resp)

----------------------------------------------------------------------------
(* Guide generation *)

\* what the model service answers to the guide prompt
GuideResponses ==
    { Raised,
      Invalid(<<"a">>),
      Valid(JArray(<< Section(<<"g1">>, << <<"q">> >>) >>)),
      Valid(JArray(<<>>)),
      Valid(JObject(<< Pair("sections", <<>>) >>)),
      Valid(JString(<<"a">>)),
      Valid(JNumber("5")),
      Valid(JNull) }

\* a guide that appends the new sections to the old ones
guide_sections_extend(old, sections) ==
    IF sections.t = "array" THEN old \o sections.v ELSE old

\* lines 956-962: the sections after the isinstance test
guide_sections(old, sections) == IF sections.t = "array" THEN sections.v ELSE old

\* ai_build_guide when the service answers resp
build_guide(resp) ==
    /\ UNCHANGED <<questions, index, answer_text, capture_var, project_fields,
                   subject_fields, guide_fields, director_fields, section_fields>>
    /\ project_brief' = sync_project_brief(project_fields)
    /\ subject_profile' = sync_subject_profile(subject_fields)
    /\ director_notes' = sync_director_notes(director_fields)
    /\ LET synced == sync_interview_guide(interview_guide, guide_fields)
       IN  IF resp.kind \in {"exception", "invalid"}
             THEN /\ interview_guide' = synced
                  /\ status' = <<"Ready">>
                  /\ op' = Done("ai_build_guide", "AI guide failed", 1, resp)
                  /\ UNCHANGED section_list
           ELSE IF resp.val.t = "array"
             THEN /\ interview_guide' =
                        [synced EXCEPT !.sections = guide_sections(@, resp.val)]
                  /\ section_list' = refresh_section_list(interview_guide')
                  /\ status' = <<"Guide updated">>
                  /\ op' = Done("ai_build_guide", "none", 1, resp)
           ELSE /\ interview_guide' =
                      [synced EXCEPT !.sections = guide_sections(@, resp.val)]
                /\ status' = <<"Ready">>
                /\ op' = Done("ai_build_guide",
                              "AI response was not a section list.", 1, resp)
                /\ UNCHANGED section_list

ai_build_guide ==
    /\ FromMainLoop
    /\ \E resp \in GuideResponses : build_guide(resp)

----------------------------------------------------------------------------
(* Edits of the form fields *)

\* texts typed into a form field
FieldTexts == { <<"n", " ">> }

Typed(w) == \E i \in 1..Len(w) : w[i] = "n"

\* the form fields that hold a text the user typed
EditedFields ==
    Cardinality({f \in DOMAIN project_fields : Typed(project_fields[f])})
      + Cardinality({f \in DOMAIN subject_fields : Typed(subject_fields[f])})
      + Cardinality({f \in DOMAIN guide_fields : Typed(guide_fields[f])})
      + Cardinality({f \in DOMAIN director_fields : Typed(director_fields[f])})

EditProjectField ==
    /\ FromMainLoop
    /\ EditedFields < MaxEdits
    /\ \E f \in {"project_name"}, t \in FieldTexts :
          /\ project_fields[f] # t
          /\ project_fields' = [project_fields EXCEPT ![f] = t]
    /\ op' = Idle
    /\ UNCHANGED <<questions, index, answer_text, capture_var, status, docs,
                   subject_fields, guide_fields, director_fields, section_fields,
                   section_list>>

EditSubjectField ==
    /\ FromMainLoop
    /\ EditedFields < MaxEdits
    /\ \E f \in {"subject_name"}, t \in FieldTexts :
          /\ subject_fields[f] # t
          /\ subject_fields' = [subject_fields EXCEPT ![f] = t]
    /\ op' = Idle
    /\ UNCHANGED <<questions, index, answer_text, capture_var, status, docs,
                   project_fields, guide_fields, director_fields, section_fields,
                   section_list>>

\* the texts typed into a field of the director tab hold a quote, a
\* backslash and line breaks
EditDirectorField ==
    /\ FromMainLoop
    /\ EditedFields < MaxEdits
    /\ \E f \in {"story_arc", "scene_beats"},
          t \in { <<"n", "\n", "\"">>, <<"\\", "n", " ">> } :
          /\ director_fields[f] # t
          /\ director_fields' = [director_fields EXCEPT ![f] = t]
    /\ op' = Idle
    /\ UNCHANGED <<questions, index, answer_text, capture_var, status, docs,
                   project_fields, subject_fields, guide_fields, section_fields,
                   section_list>>

----------------------------------------------------------------------------
(* Saving: save_all_outputs, save_session and the steps of save_json *)

\* sync_all_fields_to_data
sync_all_fields_to_data ==
    /\ project_brief' = sync_project_brief(project_fields)
    /\ subject_profile' = sync_subject_profile(subject_fields)
    /\ interview_guide' = sync_interview_guide(interview_guide, guide_fields)
    /\ director_notes' = sync_director_notes(director_fields)

\* one call of save_json: the path and the data it is given
Job(path, data, type) == [path |-> path, data |-> data, type |-> type]

\* a handler that has not returned: where it stands and the save_json calls
\* it has yet to end
Frame(name, at, jobs) == [name |-> name, at |-> at, jobs |-> jobs]

SessionType ==
    Dict(<< <<"questions",
              ListOf(Dict(<< <<"id", Str>>, <<"category", Str>>,
                             <<"question", Str>>, <<"answer", Str>>,
                             <<"source", Str>> >>))>>,
            <<"project_brief", ProjectBriefType>>,
            <<"subject_profile", SubjectProfileType>>,
            <<"interview_guide", InterviewGuideType>>,
            <<"director_producer", DirectorNotesType>> >>)

\* self.session: the question list and the four documents it refers to
session(qs, ds) ==
    [questions |->
        [i \in 1..Len(qs) |->
            [id |-> <<qs[i].id[1], "-", ToString(qs[i].id[3])>>,
             category |-> <<qs[i].category>>,
             question |-> qs[i].question,
             answer |-> qs[i].answer,
             source |-> <<qs[i].source>>]],
     project_brief |-> ds[1],
     subject_profile |-> ds[2],
     interview_guide |-> ds[3],
     director_producer |-> ds[4]]

\* save_all_outputs up to its first save_json
save_all_outputs ==
    /\ running = <<>>
    /\ sync_all_fields_to_data
    /\ running' =
          << Frame("save_all_outputs", "open",
                   << Job(PROJECT_BRIEF_PATH, project_brief', ProjectBriefType),
                      Job(SUBJECT_PROFILE_PATH, subject_profile', SubjectProfileType),
                      Job(INTERVIEW_GUIDE_PATH, interview_guide', InterviewGuideType),
                      Job(DIRECTOR_NOTES_PATH, director_notes', DirectorNotesType) >>) >>
    /\ op' = Idle
    /\ UNCHANGED <<questions, index, answer_text, capture_var, status, forms,
                   question_bank, files, tk_queue>>

\* save_session up to its save_json
save_session ==
    /\ running = <<>>
    /\ questions' = save_current_answer(questions, index, answer_text)
    /\ sync_all_fields_to_data
    /\ running' =
          << Frame("save_session", "open",
                   << Job(SESSION_PATH, session(questions', docs'), SessionType) >>) >>
    /\ op' = Idle
    /\ UNCHANGED <<index, answer_text, capture_var, status, forms,
                   question_bank, files, tk_queue>>

\* the save_json call the running handler is in
Saving == running # <<>> /\ running[Len(running)].jobs # <<>>

CurrentJob == Head(running[Len(running)].jobs)

\* the running handler moves on to at, with the jobs given
MoveTo(at, jobs) ==
    running' = [running EXCEPT ![Len(running)] = Frame(@.name, at, jobs)]

SaveFrame ==
    UNCHANGED <<questions, index, answer_text, capture_var, docs, forms,
                question_bank, tk_queue>>

\* tmp_path.open("w"): the temporary file exists and is empty
save_json_open ==
    /\ Saving
    /\ running[Len(running)].at = "open"
    /\ files' = write_file(files, tmp_path(CurrentJob.path), <<>>)
    /\ MoveTo("dump", running[Len(running)].jobs)
    /\ UNCHANGED <<status, op>>
    /\ SaveFrame

\* json.dump: the text goes to the buffered file, and a first part of it may
\* reach the disk before the file is closed
save_json_dump ==
    /\ Saving
    /\ running[Len(running)].at = "dump"
    /\ LET text == dumps(CurrentJob.data, CurrentJob.type)
       IN  files' = write_file(files, tmp_path(CurrentJob.path),
                               SubSeq(text, 1, Len(text) \div 2))
    /\ MoveTo("close", running[Len(running)].jobs)
    /\ UNCHANGED <<status, op>>
    /\ SaveFrame

\* the end of the with block: the whole text is in the temporary file
save_json_close ==
    /\ Saving
    /\ running[Len(running)].at = "close"
    /\ files' = write_file(files, tmp_path(CurrentJob.path),
                           dumps(CurrentJob.data, CurrentJob.type))
    /\ MoveTo("replace", running[Len(running)].jobs)
    /\ UNCHANGED <<status, op>>
    /\ SaveFrame

\* tmp_path.replace(path), and the return of the handler behind its last
\* save_json
save_json_replace ==
    /\ Saving
    /\ running[Len(running)].at = "replace"
    /\ files' = replace_file(files, tmp_path(CurrentJob.path), CurrentJob.path)
    /\ LET frame == running[Len(running)]
           rest == Tail(frame.jobs)
       IN  IF rest # <<>>
             THEN /\ MoveTo("open", rest)
                  /\ UNCHANGED <<status, op>>
             ELSE /\ running' = SubSeq(running, 1, Len(running) - 1)
                  /\ status' = IF frame.name = "save_session"
                                 THEN <<"Saved: ", SESSION_PATH.stem>>
                                 ELSE <<"Saved all outputs">>
                  /\ op' = Done(frame.name, "none", 0, NoResponse)
    /\ SaveFrame

\* an OSError in save_json that no except clause catches
save_json_unhandled ==
    /\ Saving
    /\ running' = SubSeq(running, 1, Len(running) - 1)
    /\ op' = Fault(running[Len(running)].name, 0, NoResponse)
    /\ UNCHANGED <<status, files>>
    /\ SaveFrame

\* an OSError in save_json, wherever it stands: the except clause of the
\* handler reports it and the handler returns
save_json_fails ==
    /\ Saving
    /\ Cardinality({path \in DOMAIN files : path.suffix # <<".json">>}
                      \ {tmp_path(CurrentJob.path)}) < MaxLeftover
    /\ running' = SubSeq(running, 1, Len(running) - 1)
    /\ op' = Done(running[Len(running)].name, "Save failed", 0, NoResponse)
    /\ UNCHANGED <<status, files>>
    /\ SaveFrame

----------------------------------------------------------------------------
(* The event loop: clicks wait in the queue of Tk while a handler runs      *)

\* the handlers whose buttons are clicked
Buttons ==
    {"insert_follow_up", "ai_summarize_subject", "ai_build_guide", "next_question"}

\* the events self.root.update() would dispatch: all that wait
update(queue) == queue

\* the events self.root.update_idletasks() dispatches: idle callbacks, that
\* is redraws, and none of the clicks that wait
update_idletasks(queue) == <<>>

\* a click on a button, whether a handler runs or not: the event waits
click ==
    /\ Len(tk_queue) < MaxQueued
    /\ \E button \in Buttons : tk_queue' = Append(tk_queue, button)
    /\ UNCHANGED <<questions, index, answer_text, capture_var, status, docs,
                   forms, op, question_bank, files, running>>

\* the handler stands before its call_ollama
Pend(name) ==
    /\ running' = Append(running, Frame(name, "update_idletasks", <<>>))
    /\ op' = Idle

\* the handler of a click, from its start to its return or to the
\* update_idletasks before its call_ollama
handle(name) ==
    IF name = "next_question"
      THEN NextFrom(answer_text, "next_question") /\ UNCHANGED running
    ELSE IF name = "insert_follow_up"
      THEN LET qs == save_current_answer(questions, index, answer_text)
           IN  IF questions = <<>> \/ qs[index + 1].answer = <<>>
                 THEN insert_follow_ups(1, NoResponse) /\ UNCHANGED running
                 ELSE /\ AICount(questions) < MaxInserted
                      /\ questions' = qs
                      /\ status' = <<"Calling Ollama...">>
                      /\ Pend(name)
                      /\ UNCHANGED <<index, answer_text, capture_var, docs, forms>>
    ELSE IF name = "ai_summarize_subject"
      THEN IF collect_answer_text(questions) = <<>>
             THEN summarize_subject(NoResponse) /\ UNCHANGED running
             ELSE /\ status' = <<"Summarizing subject...">>
                  /\ Pend(name)
                  /\ UNCHANGED <<questions, index, answer_text, capture_var,
                                 docs, forms>>
    ELSE /\ sync_all_fields_to_data
         /\ status' = <<"Building guide...">>
         /\ Pend(name)
         /\ UNCHANGED <<questions, index, answer_text, capture_var, forms>>

\* root.mainloop(): no handler runs, and the first event that waits is
\* dispatched to its handler
mainloop ==
    /\ running = <<>>
    /\ tk_queue # <<>>
    /\ tk_queue' = Tail(tk_queue)
    /\ handle(Head(tk_queue))
    /\ UNCHANGED <<question_bank, files>>

\* self.root.update_idletasks() in a handler: the events it dispatches run
\* their handlers inside it, and then the handler goes on to call_ollama
root_update_idletasks ==
    /\ running # <<>>
    /\ running[Len(running)].at = "update_idletasks"
    /\ IF update_idletasks(tk_queue) = <<>>
         THEN /\ MoveTo("call_ollama", <<>>)
              /\ UNCHANGED <<questions, index, answer_text, capture_var, status,
                             docs, forms, op, tk_queue>>
         ELSE /\ tk_queue' = Tail(tk_queue)
              /\ handle(Head(update_idletasks(tk_queue)))
    /\ UNCHANGED <<question_bank, files>>

\* call_ollama returns or raises, and the handler runs to its return
call_ollama_returns ==
    /\ running # <<>>
    /\ running[Len(running)].at = "call_ollama"
    /\ LET name == running[Len(running)].name
       IN  \/ /\ name = "insert_follow_up"
              /\ \E resp \in FollowUpResponses : insert_follow_ups(1, resp)
           \/ /\ name = "ai_summarize_subject"
              /\ \E resp \in SummaryResponses : summarize_subject(resp)
           \/ /\ name = "ai_build_guide"
              /\ \E resp \in GuideResponses : build_guide(resp)
    /\ running' = SubSeq(running, 1, Len(running) - 1)
    /\ UNCHANGED <<tk_queue, question_bank, files>>

----------------------------------------------------------------------------
(* Specifications *)

\* the question list: navigation, follow-ups and capture, from every bank
InitSession ==
    \E bank \in {BankMissing, BankAi} :
        InitWith(bank, default_interview_guide, default_director_notes)

NextSession ==
    \/ TypeAnswer
    \/ next_question
    \/ prev_question
    \/ skip_question
    \/ insert_follow_up
    \/ insert_follow_ups_batch
    \/ capture_answer

SpecSession == InitSession /\ [][NextSession]_vars

\* the capture router: every destination, with and without a selected section
InitCapture ==
    \E guide \in InitialGuides, notes \in InitialDirectorNotes :
        InitWith(BankMixed, guide, notes)

NextCapture ==
    \/ TypeAnswer
    \/ next_question
    \/ SelectCapture
    \/ SelectSection
    \/ capture_answer

SpecCapture == InitCapture /\ [][NextCapture]_vars

\* the enrichments: follow-ups, summary and guide, with edited form fields
InitEnrich ==
    InitWith(BankAi, LoadedGuide, default_director_notes)

NextEnrich ==
    \/ TypeAnswer
    \/ insert_follow_up
    \/ ai_summarize_subject
    \/ ai_build_guide
    \/ EditProjectField

SpecEnrich == InitEnrich /\ [][NextEnrich]_vars

\* a question bank with two entries under a key and a key without entries
BankTwo ==
    << [key |-> "warmup", t |-> "list", v |-> <<QA, QB>>],
       [key |-> "empty", t |-> "list", v |-> <<>>],
       [key |-> "scope_ideas", t |-> "list", v |-> <<QB, QA>>] >>

\* a project_brief.json of an older version, one
\* that lacks open_questions
PartialStore ==
    [path \in {PROJECT_BRIEF_PATH} |->
        dumps([project_name |-> <<"p">>, story_goals |-> <<>>],
              ProjectBriefType)]

\* the document store: the question bank and the files a run finds (none,
\* an older project brief, the guide and the notes of an earlier run), the
\* edits and the saves
InitStore ==
    \E installation \in
          { <<BankMissing, [path \in {} |-> <<>>]>>,
            <<BankMixed, PartialStore>>,
            <<BankTwo, Stored(LoadedGuide, LoadedDirectorNotes)>> } :
        InitFrom(installation[1], installation[2])

NextStore ==
    \/ EditDirectorField
    \/ save_all_outputs
    \/ save_session
    \/ save_json_open
    \/ save_json_dump
    \/ save_json_close
    \/ save_json_replace
    \/ save_json_fails

SpecStore == InitStore /\ [][NextStore]_vars

\* the event loop: clicks while a service call is pending
NextPending ==
    \/ TypeAnswer
    \/ click
    \/ mainloop
    \/ root_update_idletasks
    \/ call_ollama_returns

SpecPending == InitSession /\ [][NextPending]_vars

\* the forms: edits of fields, captures, and the handlers that fill the
\* fields from the documents or the documents from the fields
NextForms ==
    \/ TypeAnswer
    \/ SelectCapture
    \/ capture_answer
    \/ EditProjectField
    \/ EditSubjectField
    \/ ai_summarize_subject
    \/ ai_build_guide

SpecForms == InitEnrich /\ [][NextForms]_vars

Next ==
    \/ NextSession
    \/ NextCapture
    \/ NextEnrich
    \/ NextStore
    \/ NextPending
    \/ NextForms

Spec == Init /\ [][Next]_vars

----------------------------------------------------------------------------
(* Properties *)

\* the trimmed text in the answer box
Entered == strip(answer_text)

\* the question list once Entered is stored in the current record
Committed == [questions EXCEPT ![index + 1].answer = Entered]

AnswerFirst == "Answer the current question first."

\* the texts of T that are non-empty after trimming
TrimmedTexts(T) == SelectNonEmpty([k \in 1..Len(T) |-> strip(T[k])])

\* the texts of T, trimmed and without surrounding quotes, that are non-empty
InsertedTexts(T) == SelectNonEmpty([k \in 1..Len(T) |-> strip_quotes(strip(T[k]))])

\* a step of _insert_follow_ups that reaches the insertion with a JSON array
InsertionStep ==
    /\ op'.name = "insert_follow_ups"
    /\ op'.calls = 1
    /\ ~op'.fault
    /\ op'.msg = "none"
    /\ op'.resp.kind = "json"
    /\ op'.resp.val.t = "array"

\* one AI record per text, in order, right after the current index, the other
\* records in their order around them, and the index at newIndex
Spliced(texts, newIndex) ==
    LET i == index
        n == Len(texts)
    IN  /\ Len(questions') = Len(questions) + n
        /\ \A j \in 1..(i + 1) : questions'[j] = Committed[j]
        /\ \A k \in 1..n :
              /\ questions'[i + 1 + k].question = strip_quotes(texts[k])
              /\ questions'[i + 1 + k].source = "ollama"
              /\ questions'[i + 1 + k].answer = <<>>
        /\ \A j \in (i + 2)..Len(questions) : questions'[j + n] = questions[j]
        /\ index' = newIndex

\* C1 as stated: the insertion after index i of the texts T adds one AI record
\* with an empty answer for each text that is non-empty after trimming, in
\* order, at i+1, i+2, ..., shifts the later records, keeps the earlier ones
\* and sets the index to i+1.
C1_AsStated ==
    [][InsertionStep => Spliced(TrimmedTexts(op'.resp.val.v), index + 1)]_vars

\* C1, amended: the insertion after index i of a non-empty list of texts T
\* adds one AI record with an empty answer for each text that is non-empty
\* after trimming and removing its surrounding double quotes, in order, at
\* i+1, i+2, ..., shifts the later records, keeps the earlier ones and sets
\* the index to the smaller of i+1 and the last index of the new list.
C1_InsertFollowUps ==
    [][InsertionStep =>
          Spliced(InsertedTexts(op'.resp.val.v),
                  Min({index + 1, Len(questions') - 1}))]_vars

\* two records were spliced in before records that were already there
C1_Witness ==
    /\ op.name = "insert_follow_ups"
    /\ op.msg = "none"
    /\ op.resp.kind = "json"
    /\ op.resp.val.t = "array"
    /\ Len(op.resp.val.v) = 3
    /\ Len(questions) > index + 2
    /\ questions[index + 1].question = <<"a">>
    /\ questions[index + 1].source = "ollama"
    /\ questions[index + 2].question = <<"b">>
    /\ questions[index + 2].source = "ollama"

C3_Navigation ==
    [][/\ (op'.name = "next_question" /\ questions # <<>>) =>
             IF index = Len(questions) - 1
               THEN /\ index' = index
                    /\ status' = <<"End of questions">>
                    /\ ~op'.fault
               ELSE index' = index + 1
       /\ (op'.name = "prev_question" /\ questions # <<>>) =>
             IF index = 0 THEN index' = 0 ELSE index' = index - 1]_vars

\* next_question has stopped at the end of a list of several records
C3_Witness ==
    /\ op.name = "next_question"
    /\ status = <<"End of questions">>
    /\ Len(questions) >= 2
    /\ index = Len(questions) - 1

\* a capture step on a question with a non-empty entered answer; to the guide
\* only with a section selected
CaptureStep ==
    /\ op'.name = "capture_answer"
    /\ questions # <<>>
    /\ Entered # <<>>
    /\ capture_var = "Guide: current section questions"
          => section_list.sel # NoSelection

\* "Q: <question>\nA: <answer>" of the current question and the entered answer
CapturedEntry ==
    <<"Q:", " ">> \o questions[index + 1].question \o <<"\n", "A:", " ">> \o Entered

\* the entry is appended to the destination's sequence and to no other field
AppendedToDestination ==
    CASE capture_var = "Subject: pre_interview_notes" ->
            /\ subject_profile' =
                  [subject_profile EXCEPT
                     !.pre_interview_notes = Append(@, CapturedEntry)]
            /\ UNCHANGED <<project_brief, interview_guide, director_notes>>
      [] capture_var = "Project: open_questions" ->
            /\ project_brief' =
                  [project_brief EXCEPT !.open_questions = Append(@, CapturedEntry)]
            /\ UNCHANGED <<subject_profile, interview_guide, director_notes>>
      [] capture_var = "Director: scene_beats" ->
            /\ director_notes' =
                  [director_notes EXCEPT !.scene_beats = Append(@, CapturedEntry)]
            /\ UNCHANGED <<project_brief, subject_profile, interview_guide>>
      [] capture_var = "Director: open_questions" ->
            /\ director_notes' =
                  [director_notes EXCEPT !.open_questions = Append(@, CapturedEntry)]
            /\ UNCHANGED <<project_brief, subject_profile, interview_guide>>
      [] OTHER ->
            /\ interview_guide' =
                  [interview_guide EXCEPT
                     !.sections[section_list.sel + 1].primary_questions =
                         Append(@, CapturedEntry)]
            /\ UNCHANGED <<project_brief, subject_profile, director_notes>>

\* C4 as stated: a capture with a non-empty answer appends the one entry to
\* the destination and leaves the other fields of the documents, the question
\* list and the index as they were.
C4_AsStated ==
    [][CaptureStep =>
          /\ AppendedToDestination
          /\ questions' = questions
          /\ index' = index]_vars

\* C4, amended: a capture with a non-empty entered answer appends the one
\* entry to the destination and leaves the other fields of the documents and
\* the index as they were; of the question list it changes only the answer
\* of the current record, which becomes the trimmed entered answer.
C4_Capture ==
    [][CaptureStep =>
          /\ AppendedToDestination
          /\ questions' = Committed
          /\ index' = index]_vars

\* the second question and its answer were appended behind the scene beat
\* that director_notes.scene_beats held
C4_Witness ==
    /\ op.name = "capture_answer"
    /\ status = <<"Captured to ", "Director: scene_beats">>
    /\ index = 1
    /\ director_notes.scene_beats =
          << <<"s">>,
             <<"Q:", " ", "Scope", " ", "idea:", " ", "b", "\n", "A:", " ", "x">> >>
    /\ director_notes.open_questions = <<>>

\* a capture or follow-up step on a question whose entered answer is empty
NoAnswerStep ==
    /\ op'.name \in {"capture_answer", "insert_follow_ups"}
    /\ questions # <<>>
    /\ Entered = <<>>

\* C5 as stated: without an answer, capture and follow-up generation report
\* that an answer is required, call no service and change nothing.
C5_AsStated ==
    [][NoAnswerStep =>
          /\ op'.msg = AnswerFirst
          /\ op'.calls = 0
          /\ ~op'.fault
          /\ questions' = questions
          /\ index' = index
          /\ docs' = docs]_vars

\* C5, amended: without an entered answer, capture and follow-up generation
\* report that an answer is required, call no service and leave the index,
\* the documents and every other record as they were; the stored answer of
\* the current record becomes empty.
C5_AnswerRequired ==
    [][NoAnswerStep =>
          /\ op'.msg = AnswerFirst
          /\ op'.calls = 0
          /\ ~op'.fault
          /\ questions' = [questions EXCEPT ![index + 1].answer = <<>>]
          /\ index' = index
          /\ docs' = docs]_vars

\* an answer was required while another record holds a stored answer
C5_Witness ==
    /\ op.name \in {"capture_answer", "insert_follow_ups"}
    /\ op.msg = AnswerFirst
    /\ \E i \in 1..Len(questions) : questions[i].answer # <<>>

\* C6: a capture to the guide with no section selected changes no document
\* and does not report a capture; with section i selected it appends the
\* entry to the primary questions of section i alone.
C6_AsStated ==
    [][(/\ op'.name = "capture_answer"
        /\ questions # <<>>
        /\ Entered # <<>>
        /\ capture_var = "Guide: current section questions") =>
          IF section_list.sel = NoSelection
            THEN /\ docs' = docs
                 /\ op'.msg = "Select a section in Interview Guide first."
                 /\ status' # <<"Captured to ", capture_var>>
            ELSE AppendedToDestination]_vars

\* a step of an enrichment whose service call raised, or whose response the
\* summary or the guide could not parse
FailureStep ==
    /\ op'.name \in {"insert_follow_ups", "ai_summarize_subject", "ai_build_guide"}
    /\ op'.calls = 1
    /\ \/ op'.resp.kind = "exception"
       \/ /\ op'.resp.kind = "invalid"
          /\ op'.name \in {"ai_summarize_subject", "ai_build_guide"}

FailureReported ==
    /\ ~op'.fault
    /\ op'.msg \in {"Ollama error", "AI summary failed", "AI guide failed"}

\* C7 as stated: a failed enrichment is reported and leaves the question
\* list, the index and the documents as they were before the operation.
C7_AsStated ==
    [][FailureStep =>
          /\ FailureReported
          /\ questions' = questions
          /\ index' = index
          /\ docs' = docs]_vars

\* C7, amended: a failed enrichment is reported and merges nothing: the
\* index is as before, the question list is as before but for the entered
\* answer that follow-up generation stores in the current record, and the
\* documents are as before but for the form fields that guide generation
\* writes into them before it calls the service.
C7_NoPartialMerge ==
    [][FailureStep =>
          /\ FailureReported
          /\ index' = index
          /\ questions' =
                IF op'.name = "insert_follow_ups" THEN Committed ELSE questions
          /\ docs' =
                IF op'.name = "ai_build_guide"
                  THEN <<sync_project_brief(project_fields),
                         sync_subject_profile(subject_fields),
                         [interview_guide EXCEPT
                            !.director_notes = strip(guide_fields.director_notes)],
                         sync_director_notes(director_fields)>>
                  ELSE docs]_vars

\* a summary failed on a profile that an earlier summary had filled
C7_Witness ==
    /\ op.name = "ai_summarize_subject"
    /\ op.msg = "AI summary failed"
    /\ op.resp.kind = "invalid"
    /\ subject_profile.key_life_events # <<>>

\* whether the JSON value has the structure the operation asks for
RightShape(name, val) ==
    IF name = "ai_summarize_subject" THEN val.t = "object" ELSE val.t = "array"

\* C8: whatever the service answers, an enrichment ends in a reported
\* outcome and raises no unhandled fault; valid JSON of the wrong structure
\* is reported and nothing of it is merged.
C8_AsStated ==
    [][(/\ op'.name \in {"insert_follow_ups", "ai_summarize_subject",
                         "ai_build_guide"}
        /\ op'.calls = 1) =>
          /\ ~op'.fault
          /\ (op'.resp.kind = "json" /\ ~RightShape(op'.name, op'.resp.val)) =>
                /\ op'.msg # "none"
                /\ Len(questions') = Len(questions)
                /\ subject_profile' = subject_profile
                /\ interview_guide'.sections = interview_guide.sections]_vars

\* a step of the summary that received a JSON object
SummaryStep ==
    /\ op'.name = "ai_summarize_subject"
    /\ op'.calls = 1
    /\ op'.resp.kind = "json"
    /\ op'.resp.val.t = "object"

\* the value of key in the JSON object, or <<>> when the key is absent
ValueOrEmpty(object, key) ==
    IF \E i \in 1..Len(object.v) : object.v[i].k = <<key>>
      THEN object.v[CHOOSE i \in 1..Len(object.v) : object.v[i].k = <<key>>].val
      ELSE <<>>

\* C9: a summary that receives a JSON object sets each of the five summary
\* fields to the value of its key, or to the empty default when the key is
\* absent, and changes no other field of the profile and no other document.
C9_FullOverwrite ==
    [][SummaryStep =>
          /\ \A key \in SummaryKeys :
                subject_profile'[key] = ValueOrEmpty(op'.resp.val, key)
          /\ \A f \in (DOMAIN subject_profile) \ SummaryKeys :
                subject_profile'[f] = subject_profile[f]
          /\ UNCHANGED <<project_brief, interview_guide, director_notes>>]_vars

\* a summary with the one key background_summary has emptied the lists
C9_Witness ==
    /\ op.name = "ai_summarize_subject"
    /\ op.msg = "none"
    /\ Len(op.resp.val.v) = 1
    /\ subject_profile.background_summary = <<"X">>
    /\ subject_profile.key_life_events = <<>>

\* C10: guide generation replaces the sections with the parsed response when
\* and only when the response is a JSON array; another JSON value is reported
\* as not a section list and the sections stay as they were.
C10_GuideSections ==
    [][op'.name = "ai_build_guide" =>
          IF op'.resp.kind = "json" /\ op'.resp.val.t = "array"
            THEN interview_guide'.sections = op'.resp.val.v
            ELSE /\ interview_guide'.sections = interview_guide.sections
                 /\ op'.resp.kind = "json" =>
                       op'.msg = "AI response was not a section list."]_vars

\* a generated guide of one section is in place
C10_Witness ==
    /\ op.name = "ai_build_guide"
    /\ op.msg = "none"
    /\ status = <<"Guide updated">>
    /\ Len(interview_guide.sections) = 1
    /\ section_list.titles = << <<"g1">> >>

\* a follow-up step whose response json.loads rejects
FallbackStep ==
    /\ op'.name = "insert_follow_ups"
    /\ op'.calls = 1
    /\ op'.resp.kind = "invalid"

\* the question list holds exactly one new AI record, with the text given,
\* right after the current index, or no new record when the text is empty
OneFollowUp(text) ==
    IF text = <<>>
      THEN questions' = Committed
      ELSE /\ Len(questions') = Len(questions) + 1
           /\ \A j \in 1..(index + 1) : questions'[j] = Committed[j]
           /\ questions'[index + 2].source = "ollama"
           /\ questions'[index + 2].answer = <<>>
           /\ questions'[index + 2].question = text
           /\ \A j \in (index + 2)..Len(questions) : questions'[j + 1] = questions[j]

\* C11 as stated: a response that is not valid JSON is taken whole as one
\* follow-up: one record is inserted at index+1 when the trimmed response is
\* non-empty, none otherwise, and no failure is reported.
C11_AsStated ==
    [][FallbackStep =>
          /\ ~op'.fault
          /\ op'.msg = "none"
          /\ IF strip(op'.resp.raw) # <<>>
               THEN Len(questions') = Len(questions) + 1
               ELSE Len(questions') = Len(questions)]_vars

\* C11, amended: a response that is not valid JSON is taken whole as one
\* follow-up: one record, holding the response without surrounding whitespace
\* and double quotes, is inserted at index+1 when that text is non-empty,
\* none otherwise, and no failure is reported.
C11_RawFallback ==
    [][FallbackStep =>
          /\ ~op'.fault
          /\ op'.msg = "none"
          /\ OneFollowUp(strip_quotes(strip(op'.resp.raw)))]_vars

\* the raw response a was inserted as the one follow-up behind the question
C11_Witness ==
    /\ op.name = "insert_follow_ups"
    /\ op.resp.kind = "invalid"
    /\ op.resp.raw = <<"a">>
    /\ index = 1
    /\ Len(questions) = 2
    /\ questions[2].question = <<"a">>
    /\ questions[2].source = "ollama"

\* some record holds a stored answer that is non-empty
StoredAnswer == \E i \in 1..Len(questions) : strip(questions[i].answer) # <<>>

\* an answer is entered in the answer box for the current question
EnteredAnswer == questions # <<>> /\ Entered # <<>>

\* C12: the summary calls the service when and only when some question is
\* answered, an answer entered for the current question counting as one;
\* with no answered question it reports that answers are needed, calls no
\* service and changes nothing.
C12_AsStated ==
    [][op'.name = "ai_summarize_subject" =>
          IF StoredAnswer \/ EnteredAnswer
            THEN op'.calls = 1
            ELSE /\ op'.calls = 0
                 /\ op'.msg = "Answer a few questions first."
                 /\ UNCHANGED <<questions, index, docs, status>>]_vars

\* C19: on an empty question list next, previous, skip, follow-up generation
\* and capture raise no unhandled fault and change neither the documents nor
\* the index.
C19_AsStated ==
    [][(/\ questions = <<>>
        /\ op'.name \in {"next_question", "prev_question", "skip_question",
                         "insert_follow_ups", "capture_answer"}) =>
          /\ ~op'.fault
          /\ docs' = docs
          /\ index' = index]_vars

\* C20: next_question and prev_question store the trimmed entered text in the
\* record at the index they find, also when the index cannot move, and no
\* other record changes; when the index moves, the answer box shows the
\* stored answer of the record at the new index.
C20_CommitThenMove ==
    [][(op'.name \in {"next_question", "prev_question"} /\ questions # <<>>) =>
          /\ questions' = Committed
          /\ index' # index =>
                /\ index' \in {index - 1, index + 1}
                /\ answer_text' = questions'[index' + 1].answer]_vars

\* prev_question stored the entered answer in the second record and went
\* back to the first, whose stored answer the box shows
C20_Witness ==
    /\ op.name = "prev_question"
    /\ index = 0
    /\ Len(questions) > 1
    /\ questions[2].answer = <<"x">>
    /\ questions[1].answer = <<"x">>
    /\ answer_text = <<"x">>


\* the documents that are loaded at the start, each path with its default
LoadedAtStart ==
    { <<PROJECT_BRIEF_PATH, default_project_brief>>,
      <<SUBJECT_PROFILE_PATH, default_subject_profile>>,
      <<INTERVIEW_GUIDE_PATH, default_interview_guide>>,
      <<DIRECTOR_NOTES_PATH, default_director_notes>> }

\* C14, as the specification states it: load_or_default of a path that does
\* not exist is the default, and load_or_default of a file that exists holds
\* every key of the default.  The first half holds; a file that lacks a key
\* is handed out as it is, the key still missing.
C14_AsStated ==
    \A loaded \in LoadedAtStart :
        LET doc == load_or_default(files, loaded[1], loaded[2])
        IN  /\ ~exists(files, loaded[1]) => doc = loaded[2]
            /\ DOMAIN loaded[2] \subseteq DOMAIN doc


\* a step that is the tmp_path.replace(path) of the save_json under way
ReplaceStep ==
    /\ Saving
    /\ running[Len(running)].at = "replace"
    /\ ~exists(files', tmp_path(CurrentJob.path))

\* C15: when save_json(path, data) has replaced the target, load_json(path)
\* succeeds and returns a document equal to data, for every document the
\* handlers save: with empty lists, with quotes, backslashes and line breaks
\* in its texts
C15_RoundTrip ==
    [][ReplaceStep =>
          LET loaded == load_json(files', CurrentJob.path)
          IN  loaded.ok /\ loaded.val = CurrentJob.data]_vars

\* the director notes are saved and load as they are in memory, with a quote
\* and a line break in a text and with empty lists
C15_Witness ==
    /\ op.name = "save_all_outputs"
    /\ op.msg = "none"
    /\ exists(files, DIRECTOR_NOTES_PATH)
    /\ load_json(files, DIRECTOR_NOTES_PATH).val = director_notes
    /\ \E i \in 1..Len(director_notes.story_arc) :
           director_notes.story_arc[i] = "\""
    /\ director_notes.scene_beats = <<>>
    /\ director_notes.open_questions = <<>>


\* the paths that readers open: the documents and the session, in either of
\* two states
Targets(fs, gs) ==
    {path \in DOMAIN fs \cup DOMAIN gs : path.suffix = <<".json">>}

\* C16: save_json writes to the sibling temporary path only, until the whole
\* text stands there; the file at a target path stays, and its content
\* changes in the one step of the replace, from the whole previous content
\* (or none) to the whole text of the data being saved.  A save that fails
\* changes no target.
C16_AtomicReplace ==
    [][\A path \in Targets(files, files') :
          /\ exists(files, path) => exists(files', path)
          /\ (~exists(files, path) \/ files'[path] # files[path]) =>
                /\ Saving
                /\ running[Len(running)].at = "replace"
                /\ path = CurrentJob.path
                /\ files[tmp_path(path)] = dumps(CurrentJob.data, CurrentJob.type)
                /\ files'[path] = files[tmp_path(path)]]_vars

\* a save is under way: the temporary file holds the first part of the new
\* text, and the target still holds the whole previous content, which differs
C16_Witness ==
    /\ Saving
    /\ running[Len(running)].at = "close"
    /\ exists(files, CurrentJob.path)
    /\ load_json(files, CurrentJob.path).ok
    /\ files[CurrentJob.path] # dumps(CurrentJob.data, CurrentJob.type)
    /\ Len(files[tmp_path(CurrentJob.path)])
          < Len(dumps(CurrentJob.data, CurrentJob.type))


\* a step in which the save under way ends by an I/O error
FailStep == Saving /\ running' = <<>> /\ files' = files

\* the four documents hold what their forms hold
DocsHoldEdits ==
    /\ project_brief = sync_project_brief(project_fields)
    /\ subject_profile = sync_subject_profile(subject_fields)
    /\ interview_guide = sync_interview_guide(interview_guide, guide_fields)
    /\ director_notes = sync_director_notes(director_fields)

\* the files of the four documents hold the documents in memory
DocsPersisted ==
    /\ exists(files, PROJECT_BRIEF_PATH)
    /\ files[PROJECT_BRIEF_PATH] = dumps(project_brief, ProjectBriefType)
    /\ exists(files, SUBJECT_PROFILE_PATH)
    /\ files[SUBJECT_PROFILE_PATH] = dumps(subject_profile, SubjectProfileType)
    /\ exists(files, INTERVIEW_GUIDE_PATH)
    /\ files[INTERVIEW_GUIDE_PATH] = dumps(interview_guide, InterviewGuideType)
    /\ exists(files, DIRECTOR_NOTES_PATH)
    /\ files[DIRECTOR_NOTES_PATH] = dumps(director_notes, DirectorNotesType)

\* the session file holds the session in memory
SessionPersisted ==
    /\ exists(files, SESSION_PATH)
    /\ files[SESSION_PATH] = dumps(session(questions, docs), SessionType)

\* C17: when save_json fails in save_session or save_all_outputs, the handler
\* reports "Save failed", no exception leaves it and the main loop goes on;
\* the question list, the index and the documents are as they were when the
\* write began, the documents holding every edit of the forms.  A save
\* action that then runs to its end, whatever failed before, leaves the
\* files holding what is in memory.
C17_FailureKeepsEdits ==
    /\ [][FailStep =>
            /\ op'.msg = "Save failed"
            /\ ~op'.fault
            /\ UNCHANGED <<questions, index, docs, forms>>
            /\ DocsHoldEdits']_vars
    /\ [](~op.fault /\ op.msg = "none" /\ op.name = "save_all_outputs" => DocsPersisted)
    /\ [](~op.fault /\ op.msg = "none" /\ op.name = "save_session" => SessionPersisted)

\* a save has failed: the director notes in memory hold an edit that the
\* file does not hold
C17_Witness ==
    /\ op.msg = "Save failed"
    /\ running = <<>>
    /\ director_notes.story_arc # <<>>
    /\ ~exists(files, DIRECTOR_NOTES_PATH)
          \/ files[DIRECTOR_NOTES_PATH] # dumps(director_notes, DirectorNotesType)


\* the items of the bank that are expanded: the lists, but for "version"
ExpandedItems ==
    SelectSeq(question_bank, LAMBDA item : item.key # "version" /\ item.t = "list")

RECURSIVE EntriesBefore(_)
\* the number of entries in the first k expanded items
EntriesBefore(k) ==
    IF k = 0 THEN 0 ELSE EntriesBefore(k - 1) + Len(ExpandedItems[k].v)

\* C18: the question list built from the bank holds one record for each entry
\* of each list-valued key but "version", in the order of the bank: as many
\* records as those lists have entries, the j-th entry of a key with the id
\* <key>-<j>, the key as category, an empty answer, the source "bank" and
\* the entry as question, behind "Scope idea: " under "scope_ideas"; the ids
\* are distinct
C18_Expansion ==
    /\ Len(questions) = EntriesBefore(Len(ExpandedItems))
    /\ \A k \in 1..Len(ExpandedItems) :
          \A j \in 1..Len(ExpandedItems[k].v) :
             LET item == ExpandedItems[k]
                 record == questions[EntriesBefore(k - 1) + j]
             IN  /\ record.id = <<item.key, "-", j>>
                 /\ record.category = item.key
                 /\ record.answer = <<>>
                 /\ record.source = "bank"
                 /\ record.question =
                       IF item.key = "scope_ideas"
                         THEN <<"Scope", " ", "idea:", " ">> \o item.v[j]
                         ELSE item.v[j]
    /\ \A m, n \in 1..Len(questions) :
          questions[m].id = questions[n].id => m = n

\* a bank with two entries under a key, a key with an empty list and two
\* scope ideas has been expanded to four records
C18_Witness ==
    /\ question_bank = BankTwo
    /\ Len(questions) = 4
    /\ questions[2].id = <<"warmup", "-", 2>>
    /\ questions[3].id = <<"scope_ideas", "-", 1>>
    /\ questions[3].question = <<"Scope", " ", "idea:", " ">> \o QB


\* an enrichment handler has started and has not returned: it stands at its
\* update_idletasks or in its call_ollama
Pending == running # <<>>

\* C13: at most one enrichment handler is in progress.  While one is, a
\* step either is its return, or leaves it in progress and changes neither
\* the question list, the index, the answer box, the status, the documents
\* nor the forms, and no handler starts or returns: a click made meanwhile
\* waits in the event queue and is handled after the return.
C13_OneAtATime ==
    /\ [](Len(running) <= 1)
    /\ [][Pending =>
            \/ running' = <<>>
            \/ /\ Len(running') = 1
               /\ running'[1].name = running[1].name
               /\ UNCHANGED <<questions, index, answer_text, capture_var,
                              status, docs, forms, op>>]_vars

\* a follow-up call is pending, and a click on the subject summary waits
C13_Witness ==
    /\ Len(running) = 1
    /\ running[1].name = "insert_follow_up"
    /\ running[1].at = "call_ollama"
    /\ tk_queue # <<>>
    /\ Head(tk_queue) = "ai_summarize_subject"


\* the ids of the records of a question list
Ids(qs) == {qs[i].id : i \in 1..Len(qs)}

\* the answer of the record of a question list that has the id
AnswerOf(qs, id) == qs[CHOOSE i \in 1..Len(qs) : qs[i].id = id].answer

\* no record holds an answer
NoAnswers == \A i \in 1..Len(questions) : questions[i].answer = <<>>

\* a step gives a new record an empty answer, and it changes the answer of a
\* record only if it is a step of one of the handlers, only for the record
\* at the current index, and to the trimmed answer box (skip_question clears
\* the box first)
AnswersChangeIn(handlers) ==
    /\ \A id \in Ids(questions') \ Ids(questions) :
          AnswerOf(questions', id) = <<>>
    /\ \A id \in Ids(questions) :
          /\ id \in Ids(questions')
          /\ AnswerOf(questions', id) # AnswerOf(questions, id) =>
                /\ id = questions[index + 1].id
                /\ op'.name \in handlers \/ running' # <<>>
                /\ AnswerOf(questions', id) =
                      IF op'.name = "skip_question" THEN <<>>
                      ELSE strip(TextGet(answer_text))

WorkingStatus(name) ==
    IF name = "insert_follow_up" THEN <<"Calling Ollama...">>
    ELSE IF name = "ai_summarize_subject" THEN <<"Summarizing subject...">>
    ELSE <<"Building guide...">>

\* C22, as the specification states it: while an enrichment handler is at its
\* service call the status is its working status, and when the handler ends,
\* however it ends, the status is no longer the working status.  The first
\* half holds; a handler that ends by an exception nothing catches leaves
\* the working status.
C22_AsStated ==
    /\ [](Pending => status = WorkingStatus(running[1].name))
    /\ [][Pending /\ running' = <<>> =>
            status' # WorkingStatus(running[1].name)]_vars


\* the ids of the records of a question list, in their order
IdSeq(qs) == [i \in 1..Len(qs) |-> qs[i].id]

\* C23: whenever the question list is not empty the index is one of its
\* positions, 0 to length-1; no step shortens the list, and the records a
\* step finds are afterwards all there in the order they had
C23_IndexInRange ==
    /\ [](questions # <<>> => index \in 0..(Len(questions) - 1))
    /\ [][/\ Len(questions') >= Len(questions)
          /\ IdSeq(SelectSeq(questions',
                             LAMBDA record : record.id \in Ids(questions)))
                = IdSeq(questions)]_vars

\* follow-up generation at the last index of a list of several records, the
\* service answering with items that are all empty: the index stays the last
C23_Witness ==
    /\ op.name = "insert_follow_ups"
    /\ op.msg = "none"
    /\ op.resp = Valid(JArray(<< <<" ">>, <<"\"", "\"">> >>))
    /\ Len(questions) >= 2
    /\ index = Len(questions) - 1


\* a list that holds a captured entry and stands in its form field as
\* populate_* wrote it is the same list after the step
KeepsCaptured(list, field, list_after) ==
    CapturedIn(list) > 0 /\ field = list_to_text(list) => list_after = list

\* C24, as the specification states it: a handler that synchronises the form
\* fields into the documents (here the guide generation) leaves a list that
\* holds a captured entry, and whose field the user has not edited, as it
\* is, the entry "Q: <question>\nA: <answer>" being one element of it
C24_AsStated ==
    [][op'.name = "ai_build_guide" =>
          /\ KeepsCaptured(subject_profile.pre_interview_notes,
                           subject_fields.pre_interview_notes,
                           subject_profile'.pre_interview_notes)
          /\ KeepsCaptured(project_brief.open_questions,
                           project_fields.open_questions,
                           project_brief'.open_questions)
          /\ KeepsCaptured(director_notes.scene_beats,
                           director_fields.scene_beats,
                           director_notes'.scene_beats)
          /\ KeepsCaptured(director_notes.open_questions,
                           director_fields.open_questions,
                           director_notes'.open_questions)]_vars

\* what a save would write for the keys of the documents other than the keys
\* given is the same before and after the step
KeptOutside(keys) ==
    /\ \A k \in DOMAIN project_fields \ keys :
          sync_project_brief(project_fields')[k]
             = sync_project_brief(project_fields)[k]
    /\ \A k \in DOMAIN subject_fields \ keys :
          sync_subject_profile(subject_fields')[k]
             = sync_subject_profile(subject_fields)[k]
    /\ \A k \in DOMAIN director_fields \ keys :
          sync_director_notes(director_fields')[k]
             = sync_director_notes(director_fields)[k]
    /\ guide_fields' = guide_fields

\* C25, as the specification states it: a capture and a subject
\* summarization leave in every form field but those of the keys they write
\* what the user has entered, so that a later save writes it
C25_AsStated ==
    [][/\ op'.name = "capture_answer" =>
             KeptOutside({capture_targets[capture_var][2]})
       /\ op'.name = "ai_summarize_subject" =>
             KeptOutside(SummaryKeys)]_vars

====
